---------------------------- MODULE Spec2Model ----------------------------
(***************************************************************************)
(* A model of fix_code_style.py: the three rewrite passes over a file's    *)
(* text (fix_comment_separators, fix_function_spacing, fix_return_spacing),*)
(* process_file and main.                                                  *)
(*                                                                         *)
(* A text is a sequence of characters, each a string.  The CJK characters  *)
(* of the banner keywords are written by code point: "u5934" is U+5934.    *)
(***************************************************************************)
EXTENDS Integers, Sequences, FiniteSets, TLC

VARIABLES
    input,          \* the text a pass sequence started from
    content,        \* process_file's `content`: the text after the passes applied so far
    before,         \* `content` as it was before the last pass
    once,           \* `content` after the first full pass sequence
    applied,        \* the passes applied so far, in order
    mode,           \* "single": one pass on the input; "sequence": process_file's order; "main"
    disk,           \* file name -> the file on disk: whether it exists, and its text
    original,       \* `disk` when main started
    pc,             \* main's position
    idx,            \* main's loop position in FILES
    buf,            \* process_file's `content` while main runs
    success_count,
    fail_count,
    attempted,      \* the files main has taken from FILES, in order
    outcome,        \* file name -> how its processing ended
    ret             \* main's return value

textVars == <<input, content, before, once, applied, mode>>
mainVars == <<disk, original, pc, idx, buf, success_count, fail_count,
              attempted, outcome, ret>>
vars == <<input, content, before, once, applied, mode, disk, original, pc, idx, buf,
          success_count, fail_count, attempted, outcome, ret>>

-----------------------------------------------------------------------------
(* Characters and literals *)

NL == "\n"

\* the characters str.strip() removes and \s matches
Whitespace == {" ", "\t", "\n", "\r", "\f"}

OpenDelim == <<"/", "*">>
CloseDelim == <<"*", "/">>
DocOpener == <<"/", "*", "*">>
CloseBrace == <<"}">>
OpenBrace == <<"{">>
ReturnWord == <<"r", "e", "t", "u", "r", "n">>
ReturnOnly == <<"r", "e", "t", "u", "r", "n", ";">>

Min(S) == CHOOSE x \in S : \A y \in S : x <= y
Max(S) == CHOOSE x \in S : \A y \in S : x >= y

Stars(n) == [i \in 1..n |-> "*"]

StarsLeft == 27
StarsRight == 28

Banner(label) ==
    <<"/">> \o Stars(StarsLeft) \o <<" ">> \o label \o <<" ">> \o Stars(StarsRight) \o <<"/">>

\* the keyword of each pattern /\*.*KEYWORD.*\*/ and its replacement, in list order
replacements == <<
    [kw |-> <<"u5934", " ", "u6587", " ", "u4ef6">>,
     banner |-> Banner(<<"u5934", "u6587", "u4ef6", "u5305", "u542b">>)],
    [kw |-> <<"u5916", "u90e8", "u51fd", "u6570", "u58f0", "u660e">>,
     banner |-> Banner(<<"u5916", "u90e8", "u51fd", "u6570", "u58f0", "u660e">>)],
    [kw |-> <<"u5916", "u90e8", "u58f0", "u660e">>,
     banner |-> Banner(<<"u5916", "u90e8", "u58f0", "u660e">>)],
    [kw |-> <<"u5b8f", " ", "u5b9a", " ", "u4e49">>,
     banner |-> Banner(<<"u5b8f", "u5b9a", "u4e49">>)],
    [kw |-> <<"u7c7b", "u578b", "u5b9a", "u4e49">>,
     banner |-> Banner(<<"u7c7b", "u578b", "u5b9a", "u4e49">>)],
    [kw |-> <<"u5168", "u5c40", "u53d8", "u91cf">>,
     banner |-> Banner(<<"u5168", "u5c40", "u53d8", "u91cf">>)],
    [kw |-> <<"u6a21", "u5757", "u53d8", "u91cf">>,
     banner |-> Banner(<<"u6a21", "u5757", "u53d8", "u91cf">>)],
    [kw |-> <<"u524d", "u5411", "u58f0", "u660e">>,
     banner |-> Banner(<<"u524d", "u5411", "u58f0", "u660e">>)],
    [kw |-> <<"u51fd", "u6570", "u5b9e", "u73b0">>,
     banner |-> Banner(<<"u51fd", "u6570", "u5b9e", "u73b0">>)] >>

-----------------------------------------------------------------------------
(* Strings: str.split('\n'), '\n'.join, str.strip, str.startswith *)

\* lit occurs in s at position p
LitAt(s, p, lit) ==
    /\ p >= 1
    /\ p + Len(lit) - 1 <= Len(s)
    /\ \A i \in 1..Len(lit) : s[p + i - 1] = lit[i]

StartsWith(s, lit) == LitAt(s, 1, lit)

Split(s) ==
    LET nls == {i \in 1..Len(s) : s[i] = NL}
        n == Cardinality(nls)
        nl(k) == IF k = 0 THEN 0
                 ELSE IF k = n + 1 THEN Len(s) + 1
                 ELSE CHOOSE i \in nls : Cardinality({j \in nls : j < i}) = k - 1
    IN  [k \in 1..(n + 1) |-> SubSeq(s, nl(k - 1) + 1, nl(k) - 1)]

RECURSIVE Join(_)
Join(lines) ==
    IF Len(lines) = 0 THEN <<>>
    ELSE IF Len(lines) = 1 THEN lines[1]
    ELSE lines[1] \o <<NL>> \o Join(Tail(lines))

\* the first position from p on that holds no whitespace
RECURSIVE SkipLeft(_, _)
SkipLeft(s, p) == IF p <= Len(s) /\ s[p] \in Whitespace THEN SkipLeft(s, p + 1) ELSE p

\* the last position up to p that holds no whitespace
RECURSIVE SkipRight(_, _)
SkipRight(s, p) == IF p >= 1 /\ s[p] \in Whitespace THEN SkipRight(s, p - 1) ELSE p

Strip(s) == SubSeq(s, SkipLeft(s, 1), SkipRight(s, Len(s)))

-----------------------------------------------------------------------------
(* re.sub(r'/\*.*KEYWORD.*\*/', banner, content) *)

\* '.' under re.DOTALL: every character
IsDotAll(c) == TRUE

\* '.' matches every character but the line break
IsDot(c) == c # NL

\* where a run of '.' starting at p has to stop: the first character that is no '.'
DotLimit(s, p) ==
    LET stops == {q \in p..Len(s) : ~IsDot(s[q])}
    IN  IF stops = {} THEN Len(s) + 1 ELSE Min(stops)

\* the places of \*/ that '.*' can reach from position `from`
CloseStarts(s, from) ==
    {c \in from..(DotLimit(s, from) - 1) : LitAt(s, c, CloseDelim)}

\* the places of KEYWORD that the first '.*' can reach from position `from`
\* and after which the rest of the pattern matches
KwStarts(s, from, kw) ==
    {k \in from..(DotLimit(s, from) - 1) :
        LitAt(s, k, kw) /\ CloseStarts(s, k + Len(kw)) # {}}

\* the pattern matches at position a
Matches(s, a, kw) == LitAt(s, a, OpenDelim) /\ KwStarts(s, a + 2, kw) # {}

\* a non-greedy '.*?': the nearest keyword, the nearest \*/
MatchEndLazy(s, a, kw) ==
    LET k == Min(KwStarts(s, a + 2, kw))
    IN  Min(CloseStarts(s, k + Len(kw))) + 2

\* the position after the match at a: both '.*' are greedy, the first one first
MatchEnd(s, a, kw) ==
    LET k == Max(KwStarts(s, a + 2, kw))
    IN  Max(CloseStarts(s, k + Len(kw))) + 2

\* re.sub from position pos on: every leftmost non-overlapping match is replaced
RECURSIVE ReSub(_, _, _, _)
ReSub(s, pos, kw, repl) ==
    LET starts == {a \in pos..(Len(s) - 1) : Matches(s, a, kw)}
    IN  IF starts = {} THEN SubSeq(s, pos, Len(s))
        ELSE LET a == Min(starts)
             IN  SubSeq(s, pos, a - 1) \o repl \o ReSub(s, MatchEnd(s, a, kw), kw, repl)

\* for pattern, replacement in replacements: content = re.sub(...)
RECURSIVE ApplyReplacements(_, _)
ApplyReplacements(s, r) ==
    IF r > Len(replacements) THEN s
    ELSE ApplyReplacements(ReSub(s, 1, replacements[r].kw, replacements[r].banner), r + 1)

fix_comment_separators(s) == ApplyReplacements(s, 1)

-----------------------------------------------------------------------------
(* fix_function_spacing *)

\* lines[i] of the Python list (0-based)
At(lines, i) == lines[i + 1]

IsBlank(line) == Strip(line) = <<>>

\* next_line.startswith('/*'): any comment
NextIsDocPlain(lines, i) == StartsWith(Strip(At(lines, i + 1)), OpenDelim)

\* next_line.startswith('/**')
NextIsDoc(lines, i) == StartsWith(Strip(At(lines, i + 1)), DocOpener)

\* the while loop from j = i + 1: has_empty is set when it runs at least once
HasEmpty(lines, i) == i + 1 < Len(lines) /\ IsBlank(At(lines, i + 1))

\* the pass appends '' after lines[i]
FsInsertAfter(lines, i) ==
    /\ Strip(At(lines, i)) = CloseBrace
    /\ i + 1 < Len(lines)
    /\ NextIsDoc(lines, i)
    /\ ~HasEmpty(lines, i)

RECURSIVE FsLoop(_, _, _)
FsLoop(lines, i, result) ==
    IF ~(i < Len(lines)) THEN result
    ELSE FsLoop(lines, i + 1,
                IF FsInsertAfter(lines, i)
                THEN result \o <<At(lines, i), <<>>>>
                ELSE Append(result, At(lines, i)))

fix_function_spacing(s) == Join(FsLoop(Split(s), 0, <<>>))

-----------------------------------------------------------------------------
(* fix_return_spacing *)

\* re.match(r'^return\s+.*;', stripped) or stripped == 'return;'
IsReturn(stripped) ==
    \/ /\ StartsWith(stripped, ReturnWord)
       /\ \E m \in 1..Len(stripped) :
            /\ \A q \in 7..(6 + m) : q <= Len(stripped) /\ stripped[q] \in Whitespace
            /\ \E c \in (7 + m)..(DotLimit(stripped, 7 + m) - 1) : stripped[c] = ";"
    \/ stripped = ReturnOnly

LookBack == 5

\* range(i - 1, max(0, i - 5), -1) stops before this index, so never reaches index 0
LookbackStop(i) == IF i - LookBack > 0 THEN i - LookBack ELSE 0

\* the for loop: in_function
RECURSIVE ScanBack(_, _, _)
ScanBack(lines, j, stop) ==
    IF j <= stop THEN FALSE
    ELSE IF Strip(At(lines, j)) = CloseBrace THEN FALSE
    ELSE IF Strip(At(lines, j)) = OpenBrace THEN TRUE
    ELSE ScanBack(lines, j - 1, stop)

InFunction(lines, i) == ScanBack(lines, i - 1, LookbackStop(i))

IsLastStatement(lines, i) ==
    i + 1 < Len(lines) /\ Strip(At(lines, i + 1)) = CloseBrace

\* i > 0, whatever the line before holds
PrevNonBlankAlways(lines, i) == i > 0

\* i > 0 and lines[i - 1].strip() != ''
PrevNonBlank(lines, i) == i > 0 /\ ~IsBlank(At(lines, i - 1))

\* the pass puts '' before lines[i]
RsInsertBefore(lines, i) ==
    /\ IsReturn(Strip(At(lines, i)))
    /\ PrevNonBlank(lines, i)
    /\ InFunction(lines, i) /\ ~IsLastStatement(lines, i)
    /\ PrevNonBlank(lines, i)

\* result.pop(); result.append(''); and the line is not appended again
RsReplaceDropsLine(result, line) == SubSeq(result, 1, Len(result) - 1) \o <<<<>>>>

\* result.pop(); result.append(''); result.append(lines[i])
RsReplace(result, line) == SubSeq(result, 1, Len(result) - 1) \o <<<<>>, line>>

RECURSIVE RsLoop(_, _, _)
RsLoop(lines, i, result) ==
    IF ~(i < Len(lines)) THEN result
    ELSE LET appended == Append(result, At(lines, i))
         IN  RsLoop(lines, i + 1,
                    IF RsInsertBefore(lines, i)
                    THEN RsReplace(appended, At(lines, i))
                    ELSE appended)

fix_return_spacing(s) == Join(RsLoop(Split(s), 0, <<>>))

\* process_file, lines 154-156
ApplyAllFixes(s) == fix_return_spacing(fix_function_spacing(fix_comment_separators(s)))

-----------------------------------------------------------------------------
(* Input texts *)

LineBlank == <<>>
LineClose == <<" ", " ", "}">>
LineOpen == <<"{">>
LineReturn == <<"\t", "r", "e", "t", "u", "r", "n", " ", "0", ";">>
LineStmt == <<"x", ";">>
LineDoc == <<"/", "*", "*", " ", "d", " ", "*", "/">>
LineComment == <<"/", "*", " ", "c", " ", "*", "/">>
LineTypeDef == <<"/", "*", " ", "u7c7b", "u578b", "u5b9a", "u4e49", " ", "*", "/">>
LineHeader == <<"/", "*", " ", "u5934", " ", "u6587", " ", "u4ef6", " ", "*", "/">>
LineHeaderTight == <<"/", "*", "u5934", "u6587", "u4ef6", "*", "/">>
LineMacroAfterCode ==
    <<"/", "*", " ", "a", " ", "*", "/", " ", "x", ";", " ",
      "/", "*", " ", "u5b8f", " ", "u5b9a", " ", "u4e49", " ", "*", "/">>
LineTypeDefThenCode ==
    <<"/", "*", " ", "u7c7b", "u578b", "u5b9a", "u4e49", " ", "*", "/", " ", "x", ";", " ",
      "/", "*", " ", "c", " ", "*", "/">>
LineExternInCode ==
    <<"y", ";", " ", "/", "*", " ", "u5916", "u90e8", "u58f0", "u660e", " ", "*", "/", " ", "z">>
LineExternSpaced ==
    <<"/", "*", " ", "u5916", " ", "u90e8", " ", "u58f0", " ", "u660e", " ", "*", "/">>
LineHeaderAndTypeDef ==
    <<"/", "*", " ", "u7c7b", "u578b", "u5b9a", "u4e49", " ",
      "u5934", " ", "u6587", " ", "u4ef6", " ", "*", "/">>
LineExternFunc ==
    <<"/", "*", " ", "u5916", "u90e8", "u51fd", "u6570", "u58f0", "u660e", " ", "*", "/">>
LineReturnComment ==
    <<"r", "e", "t", "u", "r", "n", " ",
      "/", "*", " ", "u5168", "u5c40", "u53d8", "u91cf", ";", " ", "*", "/">>

SpacerPool ==
    {LineBlank, LineClose, LineOpen, LineReturn, LineStmt, LineDoc, LineComment}

BannerPool ==
    {LineHeader, LineHeaderTight, LineMacroAfterCode, LineTypeDefThenCode,
     LineExternInCode, LineExternSpaced, LineHeaderAndTypeDef, LineExternFunc,
     LineStmt, replacements[1].banner, replacements[5].banner}

MixedPool ==
    {LineBlank, LineClose, LineOpen, LineReturn, LineStmt, LineDoc, LineTypeDef,
     LineReturnComment}

\* lines enough to fill the return pass's look-back window
WindowPool == {LineOpen, LineStmt, LineReturn}

MaxLines == 4
MaxWindowLines == 7
MaxBannerLines == 2
MaxMixedLines == 3
MaxLongLines == 6
MaxRuns == 2

\* the texts of 1..n lines, each line from pool
Texts(pool, n) == {Join(ls) : ls \in UNION {[1..k -> pool] : k \in 1..n}}

-----------------------------------------------------------------------------
(* The passes, applied to a text *)

PassOrder == <<"fix_comment_separators", "fix_function_spacing", "fix_return_spacing">>

\* pass p is the next one to apply
CanApply(p) ==
    \/ mode = "single" /\ applied = <<>>
    \/ /\ mode = "sequence"
       /\ Len(applied) < Len(PassOrder) * MaxRuns
       /\ p = PassOrder[(Len(applied) % Len(PassOrder)) + 1]

Apply(p, result) ==
    /\ CanApply(p)
    /\ content' = result
    /\ before' = content
    /\ applied' = Append(applied, p)
    /\ once' = IF Len(applied') = Len(PassOrder) THEN result ELSE once
    /\ UNCHANGED <<input, mode>>
    /\ UNCHANGED mainVars

ApplyCommentSeparators == Apply("fix_comment_separators", fix_comment_separators(content))

ApplyFunctionSpacing == Apply("fix_function_spacing", fix_function_spacing(content))

ApplyReturnSpacing == Apply("fix_return_spacing", fix_return_spacing(content))

NextText == ApplyCommentSeparators \/ ApplyFunctionSpacing \/ ApplyReturnSpacing

MainIdle ==
    /\ disk = <<>> /\ original = <<>> /\ pc = "idle" /\ idx = 0 /\ buf = <<>>
    /\ success_count = 0 /\ fail_count = 0 /\ attempted = <<>> /\ outcome = <<>>
    /\ ret = 0

InitText(texts, m) ==
    /\ input \in texts
    /\ content = input /\ before = input /\ once = input
    /\ applied = <<>>
    /\ mode = m
    /\ MainIdle

InitSpacer ==
    InitText(Texts(SpacerPool, MaxLines) \cup Texts(WindowPool, MaxWindowLines), "single")
InitBanner == InitText(Texts(BannerPool, MaxBannerLines), "single")
InitSequence ==
    \/ \E m \in {"single", "sequence"} : InitText(Texts(MixedPool, MaxMixedLines), m)
    \/ InitText(Texts(WindowPool, MaxLongLines), "sequence")

SpecSpacer == InitSpacer /\ [][NextText]_vars
SpecBanner == InitBanner /\ [][NextText]_vars
SpecSequence == InitSequence /\ [][NextText]_vars

-----------------------------------------------------------------------------
(* main and process_file *)

FileNames == <<
    "arch_run2user.c", "arch_tls.c", "atomic.c", "cache.c", "context_cpu_state.c",
    "cpu.c", "mmu.c", "ptrace.c", "exception.c", "arch.c", "arch_signal.c",
    "arch_uaccess.c", "cpu_info.c", "asm-offsets.c", "coredump.c", "generic_timer.c",
    "ipi.c", "loongarch_timer.c", "tlb.c", "ttosConfig.c", "arch_init.c", "backtrace.c" >>

NumFiles == 3

\* the first NumFiles entries of the list
FILES == SubSeq(FileNames, 1, NumFiles)

FileSet == {FILES[i] : i \in 1..Len(FILES)}

\* a path that does not exist, and a file holding text
Missing == [exists |-> FALSE, text |-> <<>>]
File(text) == [exists |-> TRUE, text |-> text]

\* what a listed file may hold when main starts
FileTexts == {Join(<<CloseBrace, DocOpener>>), LineStmt}

\* what open() and write() raise; every one is a subclass of Exception
ReadErrors == {"PermissionError", "UnicodeDecodeError"}
WriteErrors == {"PermissionError"}
FlushErrors == {"OSError"}

\* `except OSError:` in place of `except Exception:`
ExceptCatchesOSError(e) == e \in {"PermissionError", "OSError"}

\* except Exception as e
ExceptCatches(e) == e \in ReadErrors \cup WriteErrors \cup FlushErrors

OnMissing(fc) == fc + 1
OnFailed(fc) == fc + 1
OnProcessed(sc) == sc + 1

\* `return 0 if success_count > 0 else 1`
ExitStatusBySuccess(sc, fc) == IF sc > 0 THEN 0 ELSE 1

\* return 0 if fail_count == 0 else 1
ExitStatus(sc, fc) == IF fc = 0 THEN 0 ELSE 1

CurrentFile == FILES[idx + 1]

\* an exception raised inside process_file's try block
Raise(e) ==
    /\ outcome' = [outcome EXCEPT ![CurrentFile] = "error"]
    /\ buf' = <<>>
    /\ IF ExceptCatches(e)
       THEN \* print the error, return False; main counts the failure
            /\ fail_count' = OnFailed(fail_count)
            /\ idx' = idx + 1
            /\ pc' = "loop"
            /\ ret' = ret
       ELSE \* the exception leaves main: the interpreter exits with status 1
            /\ pc' = "exit"
            /\ ret' = 1
            /\ UNCHANGED <<fail_count, idx>>
    /\ UNCHANGED <<success_count, attempted, original>>

\* for filename in FILES
NextFile ==
    /\ pc = "loop" /\ idx < Len(FILES)
    /\ attempted' = Append(attempted, CurrentFile)
    /\ pc' = "exists"
    /\ UNCHANGED <<disk, original, idx, buf, success_count, fail_count, outcome, ret>>
    /\ UNCHANGED textVars

\* if os.path.exists(filepath): ... else: fail_count += 1
CheckExists ==
    /\ pc = "exists"
    /\ IF disk[CurrentFile].exists
       THEN /\ pc' = "read"
            /\ UNCHANGED <<idx, fail_count, outcome>>
       ELSE /\ fail_count' = OnMissing(fail_count)
            /\ outcome' = [outcome EXCEPT ![CurrentFile] = "not found"]
            /\ idx' = idx + 1
            /\ pc' = "loop"
    /\ UNCHANGED <<disk, original, buf, success_count, attempted, ret>>
    /\ UNCHANGED textVars

\* with open(filepath, 'r', encoding='utf-8') as f: content = f.read()
OpenRead ==
    /\ pc = "read"
    /\ \/ /\ buf' = disk[CurrentFile].text
          /\ pc' = "fix"
          /\ UNCHANGED <<idx, success_count, fail_count, attempted, outcome, ret, original>>
       \/ \E e \in ReadErrors : Raise(e)
    /\ UNCHANGED disk
    /\ UNCHANGED textVars

\* the three fixes, in order
ApplyFixes ==
    /\ pc = "fix"
    /\ buf' = ApplyAllFixes(buf)
    /\ pc' = "open"
    /\ UNCHANGED <<disk, original, idx, success_count, fail_count, attempted, outcome, ret>>
    /\ UNCHANGED textVars

\* open(filepath, 'w', encoding='utf-8'): the file is truncated when it is opened
OpenWrite ==
    /\ pc = "open"
    /\ \/ /\ disk' = [disk EXCEPT ![CurrentFile] = File(<<>>)]
          /\ pc' = "write"
          /\ UNCHANGED <<buf, idx, success_count, fail_count, attempted, outcome, ret,
                         original>>
       \/ /\ \E e \in WriteErrors : Raise(e)
          /\ UNCHANGED disk
    /\ UNCHANGED textVars

\* f.write(content) and the close that flushes it; return True; success_count += 1
WriteClose ==
    /\ pc = "write"
    /\ \/ /\ disk' = [disk EXCEPT ![CurrentFile] = File(buf)]
          /\ outcome' = [outcome EXCEPT ![CurrentFile] = "processed"]
          /\ success_count' = OnProcessed(success_count)
          /\ idx' = idx + 1
          /\ pc' = "loop"
          /\ buf' = <<>>
          /\ UNCHANGED <<fail_count, attempted, ret, original>>
       \/ \* the write fails after n characters reached the file
          /\ \E n \in 0..(Len(buf) - 1) :
                disk' = [disk EXCEPT ![CurrentFile] = File(SubSeq(buf, 1, n))]
          /\ \E e \in FlushErrors : Raise(e)
    /\ UNCHANGED textVars

\* after the loop: the summary and the return value
Return ==
    /\ pc = "loop" /\ idx = Len(FILES)
    /\ ret' = ExitStatus(success_count, fail_count)
    /\ pc' = "exit"
    /\ UNCHANGED <<disk, original, idx, buf, success_count, fail_count, attempted, outcome>>
    /\ UNCHANGED textVars

NextMain ==
    \/ NextFile
    \/ CheckExists
    \/ OpenRead
    \/ ApplyFixes
    \/ OpenWrite
    \/ WriteClose
    \/ Return

InitMain ==
    /\ disk \in [FileSet -> {File(t) : t \in FileTexts} \cup {Missing}]
    /\ original = disk
    /\ pc = "loop" /\ idx = 0 /\ buf = <<>>
    /\ success_count = 0 /\ fail_count = 0
    /\ attempted = <<>>
    /\ outcome = [f \in FileSet |-> "none"]
    /\ ret = 0
    /\ input = <<>> /\ content = <<>> /\ before = <<>> /\ once = <<>>
    /\ applied = <<>> /\ mode = "main"

Spec == InitMain /\ [][NextMain]_vars

-----------------------------------------------------------------------------
(* What the claims speak of *)

\* the last pass applied was p
Ran(p) == applied # <<>> /\ applied[Len(applied)] = p

InLines == Split(before)
OutLines == Split(content)
LineCount(s) == Len(Split(s))

\* b is a with empty lines inserted and nothing else changed
RECURSIVE OnlyEmptyInserted(_, _)
OnlyEmptyInserted(a, b) ==
    IF b = <<>> THEN a = <<>>
    ELSE IF a # <<>> /\ Head(a) = Head(b) THEN OnlyEmptyInserted(Tail(a), Tail(b))
    ELSE Head(b) = <<>> /\ OnlyEmptyInserted(a, Tail(b))

SameBlankStructure(a, b) ==
    /\ Len(a) = Len(b)
    /\ \A i \in 1..Len(a) : IsBlank(a[i]) <=> IsBlank(b[i])

\* lines with an empty line put after (before) each index in `after` (`ahead`)
RECURSIVE WithEmptyLines(_, _, _, _)
WithEmptyLines(lines, i, after, ahead) ==
    IF ~(i < Len(lines)) THEN <<>>
    ELSE (IF i \in ahead THEN <<<<>>>> ELSE <<>>)
         \o <<At(lines, i)>>
         \o (IF i \in after THEN <<<<>>>> ELSE <<>>)
         \o WithEmptyLines(lines, i + 1, after, ahead)

Indices(lines) == 0..(Len(lines) - 1)

-----------------------------------------------------------------------------
(* C1 *)

\* C1: the pass sequence is idempotent.  Once the three passes have run in
\* process_file's order, running them again leaves the text as it was after the
\* first run: no pass of a later run inserts a line or rewrites a banner.
SequenceIdempotent == Len(applied) > Len(PassOrder) => content = once

\* a second run has ended on a text whose first run rewrote a banner and inserted a line
SequenceIdempotentWitness ==
    /\ Len(applied) = 2 * Len(PassOrder)
    /\ LineCount(once) > LineCount(input)
    /\ \E i \in 1..LineCount(once) :
          /\ Split(once)[i] = replacements[5].banner
          /\ \A j \in 1..LineCount(input) : Split(input)[j] # replacements[5].banner

-----------------------------------------------------------------------------
(* C4 *)

\* the claim's window: i-1 down to i-4, stopping at the start of the file
ClaimWindowStop(i) == IF i - LookBack > -1 THEN i - LookBack ELSE -1

ClaimRsInsert(lines, i) ==
    /\ IsReturn(Strip(At(lines, i)))
    /\ i > 0 /\ ~IsBlank(At(lines, i - 1))
    /\ ~(i + 1 < Len(lines) /\ Strip(At(lines, i + 1)) = CloseBrace)
    /\ ScanBack(lines, i - 1, ClaimWindowStop(i))

\* C4: fix_return_spacing puts exactly one empty line before a return line iff the
\* line before it exists and is not blank, the line after it is absent or is not `}`,
\* and scanning back over the up to 4 lines before it (down to the first line of the
\* file) meets `{` before `}`; it inserts nothing else.
ReturnSpacerDecision ==
    Ran("fix_return_spacing") =>
        OutLines = WithEmptyLines(InLines, 0, {},
                                  {i \in Indices(InLines) : ClaimRsInsert(InLines, i)})

-----------------------------------------------------------------------------
(* C5 *)

ClaimFsInsert(lines, i) ==
    /\ Strip(At(lines, i)) = CloseBrace
    /\ i + 1 < Len(lines)
    /\ StartsWith(Strip(At(lines, i + 1)), DocOpener)

\* C5: fix_function_spacing puts exactly one empty line after a line iff that line,
\* trimmed, is `}` and the next line exists and, trimmed, begins with `/**`; it
\* changes nothing else, and in its output no `}` line is directly followed by a
\* line that begins with `/**`.
FunctionSpacerDecision ==
    Ran("fix_function_spacing") =>
        /\ OutLines = WithEmptyLines(InLines, 0,
                                     {i \in Indices(InLines) : ClaimFsInsert(InLines, i)}, {})
        /\ \A i \in Indices(OutLines) : ~ClaimFsInsert(OutLines, i)

\* the pass ran on a text with a `}` before a doc comment and a `}` on its last line
FunctionSpacerWitness ==
    /\ Ran("fix_function_spacing")
    /\ LineCount(content) = LineCount(before) + 1
    /\ Strip(InLines[Len(InLines)]) = CloseBrace

-----------------------------------------------------------------------------
(* C6 *)

\* C6: no pass deletes a line.  Every pass, and the passes in sequence, yield at
\* least as many lines as they were given; fix_comment_separators keeps the line
\* count; the output of each spacer is its input with empty lines inserted.
LinesOnlyGrow ==
    applied # <<>> =>
        /\ LineCount(content) >= LineCount(before)
        /\ LineCount(content) >= LineCount(input)
        /\ Ran("fix_comment_separators") => LineCount(content) = LineCount(before)
        /\ Ran("fix_function_spacing") => OnlyEmptyInserted(InLines, OutLines)
        /\ Ran("fix_return_spacing") => OnlyEmptyInserted(InLines, OutLines)

\* the sequence has run: a banner was rewritten, then the return pass inserted a line
LinesOnlyGrowWitness ==
    /\ applied = PassOrder
    /\ LineCount(content) = LineCount(before) + 1
    /\ LineCount(before) = LineCount(input)
    /\ \E i \in 1..LineCount(input) : Split(before)[i] # Split(input)[i]

-----------------------------------------------------------------------------
(* C2 *)

Rules == 1..Len(replacements)

\* where the comment opened at a closes: its own closing delimiter
CommentClose(line, a) == {c \in (a + 2)..Len(line) : LitAt(line, c, CloseDelim)}

\* outl is inl with one comment that holds a keyword replaced by its banner
OneCommentReplaced(inl, outl) ==
    \E a \in 1..Len(inl), r \in Rules :
        /\ LitAt(inl, a, OpenDelim)
        /\ CommentClose(inl, a) # {}
        /\ LET c == Min(CommentClose(inl, a))
               kw == replacements[r].kw
           IN  /\ \E k \in (a + 2)..(c - Len(kw)) : LitAt(inl, k, kw)
               /\ outl = SubSeq(inl, 1, a - 1) \o replacements[r].banner
                                               \o SubSeq(inl, c + 2, Len(inl))

\* C2: fix_comment_separators changes only comment text.  A line is either left as
\* it is, or the one comment that holds the keyword, from its opening delimiter to
\* its own closing delimiter, is replaced and every character outside it is kept.
BannerChangesOnlyComment ==
    Ran("fix_comment_separators") =>
        /\ Len(OutLines) = Len(InLines)
        /\ \A i \in 1..Len(InLines) :
              OutLines[i] = InLines[i] \/ OneCommentReplaced(InLines[i], OutLines[i])

-----------------------------------------------------------------------------
(* C3 *)

\* the keyword's characters without the spaces between them
Letters(r) == SelectSeq(replacements[r].kw, LAMBDA ch : ch # " ")

\* the characters of `letters` from position p on, with any number of spaces between
RECURSIVE SpacedFrom(_, _, _)
SpacedFrom(line, p, letters) ==
    IF letters = <<>> THEN TRUE
    ELSE /\ p <= Len(line)
         /\ \/ line[p] = Head(letters) /\ SpacedFrom(line, p + 1, Tail(letters))
            \/ line[p] = " " /\ SpacedFrom(line, p + 1, letters)

ContainsSpaced(line, r) ==
    \E p \in 1..Len(line) : line[p] = Head(Letters(r)) /\ SpacedFrom(line, p, Letters(r))

\* the line is one comment: /* ... */ with no other closing delimiter in it
IsSingleComment(line) ==
    /\ Len(line) >= 4
    /\ StartsWith(line, OpenDelim)
    /\ CommentClose(line, 1) # {}
    /\ Min(CommentClose(line, 1)) = Len(line) - 1

LiteralMatch(line, r) ==
    \E a \in 1..Len(line) :
        /\ LitAt(line, a, OpenDelim)
        /\ \E k \in (a + 2)..Len(line) :
              /\ LitAt(line, k, replacements[r].kw)
              /\ \E c \in (k + Len(replacements[r].kw))..Len(line) :
                    LitAt(line, c, CloseDelim)

FirstOpen(line) == Min({a \in 1..Len(line) : LitAt(line, a, OpenDelim)})
LastClose(line) == Max({c \in 1..Len(line) : LitAt(line, c, CloseDelim)})

-----------------------------------------------------------------------------
(* C9 *)

FsPositions(lines) == {i \in Indices(lines) : FsInsertAfter(lines, i)}
RsPositions(lines) == {i \in Indices(lines) : RsInsertBefore(lines, i)}

\* C9 as claimed: fix_comment_separators keeps which lines are blank, and both
\* spacers insert at the same positions in its output as in its input.
BannerKeepsSpacerDecisions ==
    Ran("fix_comment_separators") =>
        /\ SameBlankStructure(InLines, OutLines)
        /\ FsPositions(OutLines) = FsPositions(InLines)
        /\ RsPositions(OutLines) = RsPositions(InLines)

\* C9 as amended: fix_comment_separators keeps the line count and which lines are
\* blank, and a spacer's decision differs between its output and its input only
\* right before a line it rewrote: after a `}` only when the next line was
\* rewritten, before a return line only when that line was rewritten.
BannerKeepsBlankStructure ==
    Ran("fix_comment_separators") =>
        /\ SameBlankStructure(InLines, OutLines)
        /\ \A i \in Indices(InLines) :
              /\ (FsInsertAfter(OutLines, i) # FsInsertAfter(InLines, i))
                    => At(OutLines, i + 1) # At(InLines, i + 1)
              /\ (RsInsertBefore(OutLines, i) # RsInsertBefore(InLines, i))
                    => At(OutLines, i) # At(InLines, i)

\* the pass ran on a text with a blank line, and rewrote the comment after a `}`
\* into a banner, which the function spacer takes for a doc comment
BannerKeepsBlankStructureWitness ==
    /\ Ran("fix_comment_separators")
    /\ \E i \in 1..Len(InLines) : IsBlank(InLines[i])
    /\ FsPositions(InLines) = {}
    /\ FsPositions(OutLines) # {}

-----------------------------------------------------------------------------
(* C7 *)

\* C7: main takes every entry of FILES once, in list order; when it ends, every
\* entry has been taken, whatever happened to the ones before it, and
\* success_count + fail_count is the number of entries.
MainAttemptsEveryFile ==
    /\ Len(attempted) <= Len(FILES)
    /\ attempted = SubSeq(FILES, 1, Len(attempted))
    /\ pc = "exit" =>
          /\ attempted = FILES
          /\ success_count + fail_count = Len(FILES)

\* main has ended after a missing file, then a failed one, then a processed one
MainAttemptsEveryFileWitness ==
    /\ pc = "exit"
    /\ outcome[FILES[1]] = "not found"
    /\ outcome[FILES[2]] = "error"
    /\ outcome[FILES[3]] = "processed"

-----------------------------------------------------------------------------
(* C8 *)

\* C8: main returns non-zero iff some listed file was not found or its processing
\* failed, and zero exactly when every listed file was processed.
ExitStatusReportsFailure ==
    pc = "exit" =>
        /\ ret # 0 <=> \E f \in FileSet : outcome[f] \in {"not found", "error"}
        /\ ret = 0 <=> \A f \in FileSet : outcome[f] = "processed"

\* main has ended with one file missing and every other one processed
ExitStatusWitness ==
    /\ pc = "exit"
    /\ ret # 0
    /\ \E f \in FileSet :
          /\ outcome[f] = "not found"
          /\ \A g \in FileSet \ {f} : outcome[g] = "processed"

-----------------------------------------------------------------------------
(* C10 *)

\* C10: at every point of a run each file that existed holds its original text or
\* its fully transformed text, never an empty or a partly written one.
AllOrNothing ==
    \A f \in FileSet :
        original[f].exists =>
            disk[f].text \in {original[f].text, ApplyAllFixes(original[f].text)}

=============================================================================
